---------------------------- MODULE Spec2Model ----------------------------
(***************************************************************************)
(* A model of docs/make_docs.py: the Python API reference emitter          *)
(* (PyAPIDocsBuilder), the Sphinx and Doxygen invokers, the notebook       *)
(* stager (JupyterDocsBuilder) and the script's main block.                *)
(*                                                                         *)
(* Python strings are sequences of one-character strings, so split, join,  *)
(* sorted and file-name formatting are computed on characters.  A text     *)
(* that is built up with "\n" is kept as the sequence of its lines, that   *)
(* is as text.split("\n"): <<l1, ..., ln>> stands for l1 \n ... \n ln.     *)
(***************************************************************************)
EXTENDS Integers, Sequences, FiniteSets, TLC

VARIABLES
    pc,                \* position of the script / of the method under way
    stack,             \* return positions of the callers
    err,               \* "" or the uncaught exception that ended the run
    module_names,      \* PyAPIDocsBuilder.module_names
    python_api,        \* PyAPIDocsBuilder.output_dir on disk
    idx,               \* loop position in generate_rst
    snapshots,         \* the output directory before the first generate_rst
                       \* and as each completed generate_rst left it
    doc_args,          \* arguments of a direct _generate_sub_module_doc call
    args,              \* the parsed command line
    environ,           \* os.environ: the names of the variables that are set
    jdb,               \* the JupyterDocsBuilder, once constructed
    examples,          \* examples/Python/<dir>/*.ipynb
    tutorial,          \* docs/tutorial/<dir>/*.ipynb
    test_data,         \* docs/TestData
    helper,            \* docs/tutorial/open3d_tutorial.py
    stage,             \* loop position over example_dirs
    nb_paths,          \* the staged notebooks, in staging order
    nb_idx,            \* loop position over nb_paths
    executed,          \* the ep.preprocess calls so far and how each ended
    index_rst,         \* the lines of index.rst
    version_txt,       \* the lines of ../src/Open3D/version.txt
    sdb,               \* the SphinxDocsBuilder, once constructed
    calls,             \* the external commands run, with their exit codes
    html_out,          \* what html_output_dir holds
    doxygen_dir,       \* the scratch directory "doxygen"
    cpp_build_dir      \* _static/C++/build

ctlVars == <<pc, stack, err>>
rstVars == <<module_names, python_api, idx, snapshots>>
docVars == <<doc_args>>
nbVars == <<jdb, examples, tutorial, test_data, helper, stage, nb_paths,
            nb_idx, executed>>
envVars == <<args, environ>>
siteVars == <<index_rst, version_txt, sdb, calls, html_out, doxygen_dir,
              cpp_build_dir>>
vars == <<ctlVars, rstVars, docVars, nbVars, envVars, siteVars>>

---------------------------------------------------------------------------
(* Bounds *)

MaxModules == 2        \* longest module list
MaxStale == 1          \* files left in the output directory by earlier runs
MaxMembers == 4        \* names passed to one _generate_sub_module_doc call
MaxRuns == 2           \* generate_rst calls in a row
MaxNotebooks == 2      \* notebooks under examples/Python
MaxPreexisting == 1    \* notebooks already under docs/tutorial
MaxLines == 3          \* lines of version.txt

---------------------------------------------------------------------------
(* Python strings *)

Ascii ==
    <<" ", "!", "\"", "#", "$", "%", "&", "'", "(", ")", "*", "+", ",", "-",
    ".", "/", "0", "1", "2", "3", "4", "5", "6", "7", "8", "9", ":", ";", "<",
    "=", ">", "?", "@", "A", "B", "C", "D", "E", "F", "G", "H", "I", "J", "K",
    "L", "M", "N", "O", "P", "Q", "R", "S", "T", "U", "V", "W", "X", "Y", "Z",
    "[", "\\", "]", "^", "_", "grave", "a", "b", "c", "d", "e", "f", "g", "h",
    "i", "j", "k", "l", "m", "n", "o", "p", "q", "r", "s", "t", "u", "v", "w",
    "x", "y", "z", "{", "|", "}", "~">>

\* ord(c): the code point of a printable ASCII character (the table holds
\* them in code order from 32; "grave" stands for code 96)
Ord(c) == 31 + (CHOOSE i \in 1..Len(Ascii) : Ascii[i] = c)

\* s < t for two str: the first differing code point decides, a proper
\* prefix is smaller
StrLess(s, t) ==
    \E k \in 0..Len(s) :
        /\ k <= Len(t)
        /\ \A j \in 1..k : s[j] = t[j]
        /\ \/ k = Len(s) /\ k < Len(t)
           \/ k < Len(s) /\ k < Len(t) /\ Ord(s[k + 1]) < Ord(t[k + 1])

RECURSIVE Insert(_, _)
Insert(x, seq) ==
    IF seq = <<>> THEN <<x>>
    ELSE IF StrLess(x, Head(seq)) THEN <<x>> \o seq
    ELSE <<Head(seq)>> \o Insert(x, Tail(seq))

\* a sorted() that returns its argument as it is
NoSort(seq) == seq

\* sorted(seq) for a list of str
RECURSIVE Sorted(_)
Sorted(seq) ==
    IF seq = <<>> THEN <<>>
    ELSE Insert(seq[Len(seq)], Sorted(SubSeq(seq, 1, Len(seq) - 1)))

\* s.split(sep) for a one-character sep
RECURSIVE Split(_, _)
Split(s, sep) ==
    IF \A i \in 1..Len(s) : s[i] # sep THEN <<s>>
    ELSE LET i == CHOOSE k \in 1..Len(s) :
                      s[k] = sep /\ \A j \in 1..(k - 1) : s[j] # sep
         IN  <<SubSeq(s, 1, i - 1)>> \o Split(SubSeq(s, i + 1, Len(s)), sep)

\* sep.join(parts)
RECURSIVE Join(_, _)
Join(parts, sep) ==
    IF parts = <<>> THEN <<>>
    ELSE IF Len(parts) = 1 THEN parts[1]
    ELSE parts[1] \o sep \o Join(Tail(parts), sep)

\* a + b for two texts kept as their lines
Cat(a, b) ==
    SubSeq(a, 1, Len(a) - 1) \o <<a[Len(a)] \o b[1]>> \o Tail(b)

\* "-" * n
Dashes(n) == [i \in 1..n |-> "-"]

S_open3d == <<"o", "p", "e", "n", "3", "d">>

S_rst == <<"r", "s", "t">>

S_currentmodule ==
    <<".", ".", " ", "c", "u", "r", "r", "e", "n", "t", "m", "o", "d", "u",
    "l", "e", ":", ":", " ">>

S_autofunction ==
    <<".", ".", " ", "a", "u", "t", "o", "f", "u", "n", "c", "t", "i", "o",
    "n", ":", ":", " ">>

S_autoclass ==
    <<".", ".", " ", "a", "u", "t", "o", "c", "l", "a", "s", "s", ":", ":",
    " ">>

S_members ==
    <<" ", " ", " ", " ", ":", "m", "e", "m", "b", "e", "r", "s", ":">>

S_undoc_members ==
    <<" ", " ", " ", " ", ":", "u", "n", "d", "o", "c", "-", "m", "e", "m",
    "b", "e", "r", "s", ":">>

S_inherited_members ==
    <<" ", " ", " ", " ", ":", "i", "n", "h", "e", "r", "i", "t", "e", "d",
    "-", "m", "e", "m", "b", "e", "r", "s", ":">>

S_Classes ==
    <<"*", "*", "C", "l", "a", "s", "s", "e", "s", "*", "*">>

S_Functions ==
    <<"*", "*", "F", "u", "n", "c", "t", "i", "o", "n", "s", "*", "*">>

S_autosummary ==
    <<".", ".", " ", "a", "u", "t", "o", "s", "u", "m", "m", "a", "r", "y",
    ":", ":">>

S_toctree ==
    <<".", ".", " ", "t", "o", "c", "t", "r", "e", "e", ":", ":">>

S_hidden ==
    <<" ", " ", " ", " ", ":", "h", "i", "d", "d", "e", "n", ":">>

S_indent == <<" ", " ", " ", " ">>

---------------------------------------------------------------------------
(* The interpreter's objects: the root package open3d as imported, with a  *)
(* pybind submodule (an attribute, not importable), a pure Python          *)
(* subpackage whose __init__ does "from .T import T", and that submodule.  *)

N_cam == <<"c", "a", "m">>
N_ml == <<"m", "l">>
N_T == <<"T">>
N_foo == <<"f", "o", "o">>
N_x == <<"x">>

Dotted(a, b) == a \o <<".">> \o b

\* each module object's attributes: name -> object (a module object, or
\* "class", "builtin", "function", "value" for what is not a module)
ModuleAttrs ==
    [ root |-> { <<N_cam, "cam">>, <<N_ml, "ml">>, <<<<"K">>, "class">>,
                 <<<<"r">>, "builtin">>, <<<<"h">>, "function">>,
                 <<<<"_", "v">>, "value">> },
      cam  |-> { <<<<"P">>, "class">>, <<<<"A">>, "class">>,
                 <<<<"f">>, "builtin">>, <<<<"_", "g">>, "builtin">> },
      ml   |-> { <<N_T, "class">>, <<<<"h">>, "function">> },
      mlT  |-> { <<N_T, "class">> } ]

IsModule(obj) == obj \in DOMAIN ModuleAttrs

\* inspect.isclass, inspect.isbuiltin
isclass(obj) == obj = "class"

isbuiltin(obj) == obj = "builtin"

\* sys.modules / the import path: what importlib.import_module(name) finds
Importable ==
    { <<S_open3d, "root">>, <<Dotted(S_open3d, N_ml), "ml">>,
      <<Dotted(Dotted(S_open3d, N_ml), N_T), "mlT">> }

HasAttr(obj, name) == IsModule(obj) /\ \E a \in ModuleAttrs[obj] : a[1] = name

\* getattr(obj, name), "AttributeError" when there is none
GetAttr(obj, name) ==
    IF HasAttr(obj, name)
    THEN (CHOOSE a \in ModuleAttrs[obj] : a[1] = name)[2]
    ELSE "AttributeError"

RECURSIVE SetToSeq(_)
SetToSeq(S) ==
    IF S = {} THEN <<>>
    ELSE LET x == CHOOSE y \in S : TRUE IN <<x>> \o SetToSeq(S \ {x})

\* [obj[0] for obj in getmembers(module) if pred(obj[1])]: getmembers
\* returns the (name, value) pairs sorted by name
MemberNames(obj, kind) ==
    Sorted(SetToSeq({ a[1] : a \in { b \in ModuleAttrs[obj] : b[2] = kind } }))

\* the for loop of _get_open3d_module over the name's segments
RECURSIVE Traverse(_, _)
Traverse(current_module, segments) ==
    IF segments = <<>> THEN current_module
    ELSE IF ~HasAttr(current_module, Head(segments)) THEN "AttributeError"
    ELSE Traverse(GetAttr(current_module, Head(segments)), Tail(segments))

\* PyAPIDocsBuilder._get_open3d_module
GetOpen3dModule(full_module_name) ==
    IF \E m \in Importable : m[1] = full_module_name
    THEN (CHOOSE m \in Importable : m[1] = full_module_name)[2]
    ELSE Traverse("root", Tail(Split(full_module_name, ".")))

---------------------------------------------------------------------------
(* The descriptor files *)

\* PyAPIDocsBuilder._generate_function_doc: out_string
FunctionDoc(sub_module_full_name, function_name) ==
    LET title == Dotted(sub_module_full_name, function_name)
        o1 == Cat(<<title>>, <<<<>>, Dashes(Len(title))>>)
        o2 == Cat(o1, <<<<>>, <<>>, S_currentmodule \o sub_module_full_name>>)
        o3 == Cat(o2, <<<<>>, <<>>, S_autofunction \o function_name>>)
    IN  Cat(o3, <<<<>>, <<>>>>)

\* PyAPIDocsBuilder._generate_class_doc: out_string
ClassDoc(sub_module_full_name, class_name) ==
    LET title == Dotted(sub_module_full_name, class_name)
        o1 == Cat(<<title>>, <<<<>>, Dashes(Len(title))>>)
        o2 == Cat(o1, <<<<>>, <<>>, S_currentmodule \o sub_module_full_name>>)
        o3 == Cat(o2, <<<<>>, <<>>, S_autoclass \o class_name>>)
        o4 == Cat(o3, <<<<>>, S_members>>)
        o5 == Cat(o4, <<<<>>, S_undoc_members>>)
        o6 == Cat(o5, <<<<>>, S_inherited_members>>)
    IN  Cat(o6, <<<<>>, <<>>>>)

\* the loops of _generate_sub_module_doc: one "\n    name" per name
RECURSIVE SummaryLines(_, _)
SummaryLines(out, names) ==
    IF names = <<>> THEN out
    ELSE SummaryLines(Cat(out, <<<<>>, S_indent \o Head(names)>>), Tail(names))

\* one "\n    name <module.name>" per name
RECURSIVE ToctreeLines(_, _, _)
ToctreeLines(out, sub_module_full_name, names) ==
    IF names = <<>> THEN out
    ELSE ToctreeLines(
             Cat(out, <<<<>>, S_indent \o Head(names) \o <<" ", "<">>
                              \o Dotted(sub_module_full_name, Head(names))
                              \o <<">">> >>),
             sub_module_full_name, Tail(names))

\* PyAPIDocsBuilder._generate_sub_module_doc: out_string
SubModuleDoc(sub_module_full_name, class_names_in, function_names_in) ==
    LET class_names == Sorted(class_names_in)
        function_names == Sorted(function_names_in)
        o1 == Cat(<<sub_module_full_name>>,
                  <<<<>>, Dashes(Len(sub_module_full_name))>>)
        o2 == Cat(o1, <<<<>>, <<>>, S_currentmodule \o sub_module_full_name>>)
        o3 == IF Len(class_names) > 0
              THEN Cat(SummaryLines(
                           Cat(Cat(Cat(o2, <<<<>>, <<>>, S_Classes>>),
                                   <<<<>>, <<>>, S_autosummary>>),
                               <<<<>>, <<>>>>),
                           class_names),
                       <<<<>>, <<>>>>)
              ELSE o2
        o4 == IF Len(function_names) > 0
              THEN Cat(SummaryLines(
                           Cat(Cat(Cat(o3, <<<<>>, <<>>, S_Functions>>),
                                   <<<<>>, <<>>, S_autosummary>>),
                               <<<<>>, <<>>>>),
                           function_names),
                       <<<<>>, <<>>>>)
              ELSE o3
        obj_names == class_names \o function_names
    IN  IF Len(obj_names) > 0
        THEN Cat(ToctreeLines(
                     Cat(Cat(Cat(o4, <<<<>>, <<>>, S_toctree>>),
                             <<<<>>, S_hidden>>),
                         <<<<>>, <<>>>>),
                     sub_module_full_name, obj_names),
                 <<<<>>, <<>>>>)
        ELSE o4

\* "%s.rst" % name
RstName(name) == Dotted(name, S_rst)

\* with open(path, "w") as f: f.write(text), in a directory kept as a
\* function from file names to contents
WriteFile(dir, name, text) ==
    [n \in (DOMAIN dir) \cup {name} |-> IF n = name THEN text ELSE dir[n]]

RECURSIVE WriteDocs(_, _, _, _)
WriteDocs(dir, sub_module_full_name, names, kind) ==
    IF names = <<>> THEN dir
    ELSE WriteDocs(
             WriteFile(dir, RstName(Dotted(sub_module_full_name, Head(names))),
                       IF kind = "class"
                       THEN ClassDoc(sub_module_full_name, Head(names))
                       ELSE FunctionDoc(sub_module_full_name, Head(names))),
             sub_module_full_name, Tail(names), kind)

\* PyAPIDocsBuilder._generate_sub_module_class_function_docs: the output
\* directory after the class files, the function files and the module file
SubModuleClassFunctionDocs(dir, sub_module_full_name, sub_module) ==
    LET class_names == MemberNames(sub_module, "class")
        function_names == MemberNames(sub_module, "builtin")
        d1 == WriteDocs(dir, sub_module_full_name, class_names, "class")
        d2 == WriteDocs(d1, sub_module_full_name, function_names, "builtin")
    IN  WriteFile(d2, RstName(sub_module_full_name),
                  SubModuleDoc(sub_module_full_name, class_names,
                               function_names))

NoDir == [exists |-> FALSE, files |-> <<>>]

\* a _create_or_clear_dir that keeps what the directory holds
CreateDirKeeping(dir) == [exists |-> TRUE, files |-> dir.files]

\* _create_or_clear_dir
CreateOrClearDir(dir) == [exists |-> TRUE, files |-> <<>>]

---------------------------------------------------------------------------
(* PyAPIDocsBuilder.generate_rst *)

\* the module names a list may hold: importable ones, pybind submodules
\* reached through the root package, and names that resolve to nothing
ModuleNameUniverse ==
    { S_open3d, Dotted(S_open3d, N_cam), Dotted(S_open3d, N_ml),
      Dotted(Dotted(S_open3d, N_ml), N_T), Dotted(S_open3d, N_x),
      N_foo, Dotted(N_foo, N_cam) }

SeqsUpTo(S, n) == UNION { [1..k -> S] : k \in 0..n }

StaleText == << <<"o", "l", "d">> >>

\* what an earlier, different run may have left in the output directory
StaleNames == { RstName(N_foo), RstName(S_open3d),
                RstName(Dotted(S_open3d, <<"K">>)) }

InitialDirs ==
    {NoDir} \cup
    { [exists |-> TRUE, files |-> [n \in S |-> StaleText]] :
        S \in { T \in SUBSET StaleNames : Cardinality(T) <= MaxStale } }

\* generate_rst, up to its loop: the output directory is cleared
GenerateRstBegin ==
    /\ pc = "generate_rst"
    /\ python_api' = CreateOrClearDir(python_api)
    /\ idx' = 1
    /\ pc' = "rst_loop"
    /\ UNCHANGED <<stack, err, module_names, snapshots, docVars, nbVars, envVars,
                   siteVars>>

\* one iteration of the loop of generate_rst: the module is looked up and
\* its files are written; a failed lookup is not caught
GenerateRstModule ==
    /\ pc = "rst_loop"
    /\ idx <= Len(module_names)
    /\ LET module_name == module_names[idx]
           module == GetOpen3dModule(module_name)
       IN  IF module = "AttributeError"
           THEN /\ err' = "AttributeError"
                /\ pc' = "failed"
                /\ UNCHANGED <<python_api, idx>>
           ELSE /\ python_api' =
                      [python_api EXCEPT !.files =
                          SubModuleClassFunctionDocs(@, module_name, module)]
                /\ idx' = idx + 1
                /\ UNCHANGED <<pc, err>>
    /\ UNCHANGED <<stack, module_names, snapshots, docVars, nbVars, envVars,
                   siteVars>>

\* generate_rst returns to its caller
GenerateRstReturn ==
    /\ pc = "rst_loop"
    /\ idx > Len(module_names)
    /\ pc' = Head(stack)
    /\ stack' = Tail(stack)
    /\ snapshots' = Append(snapshots, python_api)
    /\ UNCHANGED <<err, module_names, python_api, idx, docVars, nbVars, envVars,
                   siteVars>>

\* the caller runs generate_rst again on the same builder
GenerateRstAgain ==
    /\ pc = "rst_returned"
    /\ Len(snapshots) - 1 < MaxRuns
    /\ pc' = "generate_rst"
    /\ stack' = <<"rst_returned">>
    /\ UNCHANGED <<err, rstVars, docVars, nbVars, envVars,
                   siteVars>>

DocIdle == doc_args = <<>>

NoBuilder ==
    [built |-> FALSE, clean_notebooks |-> FALSE, execute_notebooks |-> ""]

NoArgs ==
    [clean_notebooks |-> FALSE, execute_notebooks |-> "auto",
     build_sphinx |-> FALSE, build_doxygen |-> FALSE, is_release |-> FALSE]

NbIdle ==
    /\ jdb = NoBuilder
    /\ examples = <<>>
    /\ tutorial = <<>>
    /\ test_data = "absent"
    /\ helper = "absent"
    /\ stage = 0
    /\ nb_paths = <<>>
    /\ nb_idx = 0
    /\ executed = <<>>

EnvIdle ==
    /\ args = NoArgs
    /\ environ = {}

NoSphinx == [built |-> FALSE, documented_modules |-> <<>>,
             is_release |-> FALSE]

SiteIdle ==
    /\ index_rst = <<>>
    /\ version_txt = <<>>
    /\ sdb = NoSphinx
    /\ calls = <<>>
    /\ html_out = {}
    /\ doxygen_dir = "absent"
    /\ cpp_build_dir = "absent"

InitRst ==
    /\ pc = "generate_rst"
    /\ stack = <<"rst_returned">>
    /\ err = ""
    /\ module_names \in SeqsUpTo(ModuleNameUniverse, MaxModules)
    /\ python_api \in InitialDirs
    /\ idx = 0
    /\ snapshots = <<python_api>>
    /\ DocIdle
    /\ NbIdle
    /\ EnvIdle
    /\ SiteIdle

NextRst ==
    \/ GenerateRstBegin
    \/ GenerateRstModule
    \/ GenerateRstReturn
    \/ GenerateRstAgain

SpecRst == InitRst /\ [][NextRst]_vars

---------------------------------------------------------------------------
(* A direct call of PyAPIDocsBuilder._generate_sub_module_doc *)

MemberNameUniverse ==
    { <<"A">>, <<"P">>, <<"A", "b">>, <<"_", "g">>, <<"f">> }

IsInjective(seq) ==
    \A i, j \in 1..Len(seq) : seq[i] = seq[j] => i = j

Range(seq) == { seq[i] : i \in 1..Len(seq) }

\* the calls: any order of distinct class names and distinct function
\* names (no name is both a class and a built-in)
DocCalls ==
    { [sub_module_full_name |-> m, class_names |-> cs, function_names |-> fs] :
        m \in { Dotted(S_open3d, N_cam), N_foo },
        cs \in { c \in SeqsUpTo(MemberNameUniverse, MaxMembers) :
                   IsInjective(c) },
        fs \in { f \in SeqsUpTo(MemberNameUniverse, MaxMembers) :
                   IsInjective(f) } }

\* _generate_sub_module_doc: the module file is written
GenerateSubModuleDoc ==
    /\ pc = "sub_module_doc"
    /\ python_api' =
          [python_api EXCEPT !.files =
              WriteFile(@, RstName(doc_args.sub_module_full_name),
                        SubModuleDoc(doc_args.sub_module_full_name,
                                     doc_args.class_names,
                                     doc_args.function_names))]
    /\ pc' = "doc_written"
    /\ UNCHANGED <<stack, err, module_names, idx, snapshots, docVars, nbVars,
                   envVars, siteVars>>

InitDoc ==
    /\ pc = "sub_module_doc"
    /\ stack = <<>>
    /\ err = ""
    /\ module_names = <<>>
    /\ python_api = CreateOrClearDir(NoDir)
    /\ idx = 0
    /\ snapshots = <<>>
    /\ doc_args \in { c \in DocCalls :
                        /\ Len(c.class_names) + Len(c.function_names)
                               <= MaxMembers
                        /\ Range(c.class_names) \cap Range(c.function_names)
                               = {} }
    /\ NbIdle
    /\ EnvIdle
    /\ SiteIdle

NextDoc == GenerateSubModuleDoc

SpecDoc == InitDoc /\ [][NextDoc]_vars

---------------------------------------------------------------------------
(* Notebooks.  A cell's execution_count is 0 where the file has null; a    *)
(* file is the notebook it holds and whether its text is as nbformat       *)
(* writes it or as its author's editor left it.                            *)

MarkdownCell ==
    [cell_type |-> "markdown", source |-> "text", outputs |-> <<>>,
     execution_count |-> 0]

EmptyCodeCell ==
    [cell_type |-> "code", source |-> "", outputs |-> <<>>,
     execution_count |-> 0]

CountedEmptyCell ==
    [cell_type |-> "code", source |-> "", outputs |-> <<>>,
     execution_count |-> 1]

FreshCodeCell ==
    [cell_type |-> "code", source |-> "code", outputs |-> <<>>,
     execution_count |-> 0]

RunCodeCell ==
    [cell_type |-> "code", source |-> "code", outputs |-> <<"result">>,
     execution_count |-> 1]

\* the notebooks of the examples: without code, with code never run, with
\* code and recorded outputs, partly run, with an execution count only
NotebookSamples ==
    { [cells |-> <<MarkdownCell>>],
      [cells |-> <<MarkdownCell, FreshCodeCell>>],
      [cells |-> <<FreshCodeCell, FreshCodeCell>>],
      [cells |-> <<RunCodeCell>>],
      [cells |-> <<RunCodeCell, FreshCodeCell>>],
      [cells |-> <<CountedEmptyCell, EmptyCodeCell>>] }

PreexistingSamples ==
    { [text |-> "nbformat", nb |-> [cells |-> <<RunCodeCell>>]],
      [text |-> "authored", nb |-> [cells |-> <<FreshCodeCell>>]] }

example_dirs == <<"Basic", "Advanced">>

ExampleSlots == { <<"Basic", "a.ipynb">>, <<"Basic", "b.ipynb">>,
                  <<"Advanced", "a.ipynb">> }

TutorialSlots == { <<"Basic", "a.ipynb">>, <<"Basic", "z.ipynb">>,
                   <<"Advanced", "a.ipynb">> }

\* nbformat.read(f, as_version=4)
NbRead(file) == file.nb

\* nbformat.write(nb, f)
NbWrite(nb) == [text |-> "nbformat", nb |-> nb]

\* has_code: any(c.source for c in nb.cells if c.cell_type == "code")
HasCode(nb) ==
    \E i \in 1..Len(nb.cells) :
        nb.cells[i].cell_type = "code" /\ nb.cells[i].source # ""

\* has_output: any(c.get("outputs") or c.get("execution_count") ...)
HasOutput(nb) ==
    \E i \in 1..Len(nb.cells) :
        /\ nb.cells[i].cell_type = "code"
        /\ nb.cells[i].outputs # <<>> \/ nb.cells[i].execution_count # 0

\* an execute that looks at has_code alone under "auto"
ShouldExecuteIgnoringOutput(mode, nb) ==
    (mode = "auto" /\ HasCode(nb)) \/ mode = "always"

\* execute
ShouldExecute(mode, nb) ==
    (mode = "auto" /\ HasCode(nb) /\ ~HasOutput(nb)) \/ mode = "always"

\* the code cells ep.preprocess runs, in order
RunnableCells(nb) ==
    { i \in 1..Len(nb.cells) :
        nb.cells[i].cell_type = "code" /\ nb.cells[i].source # "" }

Ordinal(nb, i) == Cardinality({ j \in RunnableCells(nb) : j <= i })

\* ep.preprocess(nb, ...): nb after its cells were run up to and including
\* cell last; failed tells whether that cell raised
Preprocessed(nb, last, failed) ==
    [cells |->
        [i \in 1..Len(nb.cells) |->
            IF i \in RunnableCells(nb) /\ i <= last
            THEN [nb.cells[i] EXCEPT
                     !.outputs = IF failed /\ i = last THEN <<"error">>
                                 ELSE <<"result">>,
                     !.execution_count = Ordinal(nb, i)]
            ELSE nb.cells[i]]]

\* how ep.preprocess may end: every cell ran, or a cell raised
\* CellExecutionError
Outcomes(nb) ==
    { [outcome |-> "ok", nb |-> Preprocessed(nb, Len(nb.cells), FALSE)] }
    \cup { [outcome |-> "CellExecutionError",
            nb |-> Preprocessed(nb, i, TRUE)] : i \in RunnableCells(nb) }

\* a constructor that takes any execute option
AnyExecuteOption(execute_notebooks) == TRUE

\* execute_notebooks in {"auto", "always"}
ValidExecuteOption(execute_notebooks) ==
    execute_notebooks \in {"auto", "always"}

\* a check of the variable that run itself sets
ReRaiseOnCI(env) == "CI" \in env

\* "TRAVIS" in os.environ
ReRaise(env) == "TRAVIS" \in env

\* JupyterDocsBuilder.__init__
JupyterInit ==
    /\ pc = "jupyter_init"
    /\ IF ValidExecuteOption(args.execute_notebooks)
       THEN /\ jdb' = [built |-> TRUE,
                       clean_notebooks |-> args.clean_notebooks,
                       execute_notebooks |-> args.execute_notebooks]
            /\ pc' = "jupyter_run"
            /\ UNCHANGED err
       ELSE /\ err' = "ValueError"
            /\ pc' = "failed"
            /\ UNCHANGED jdb
    /\ UNCHANGED <<stack, rstVars, docVars, envVars, siteVars, examples, tutorial,
                   test_data, helper, stage, nb_paths, nb_idx, executed>>

\* run, up to the loop over example_dirs: CI is set and TestData is
\* replaced by a fresh copy
JupyterRunBegin ==
    /\ pc = "jupyter_run"
    /\ environ' = environ \cup {"CI"}
    /\ test_data' = "copied"
    /\ nb_paths' = <<>>
    /\ stage' = 1
    /\ pc' = "jupyter_stage"
    /\ UNCHANGED <<stack, err, rstVars, docVars, siteVars, args, jdb, examples,
                   tutorial, helper, nb_idx, executed>>

Restrict(f, S) == [x \in S |-> f[x]]

\* a test that never finds the file in place
is_file_never(out, nb_out_path) == FALSE

\* nb_out_path.is_file()
is_file(out, nb_out_path) == nb_out_path \in DOMAIN out

\* the copy loop over in_dir.glob("*.ipynb"), taken in the given order
RECURSIVE CopyNotebooks(_, _)
CopyNotebooks(out, order) ==
    IF order = <<>> THEN out
    ELSE CopyNotebooks(
             IF is_file(out, Head(order)) THEN out
             ELSE [x \in (DOMAIN out) \cup {Head(order)} |->
                      IF x = Head(order) THEN examples[x] ELSE out[x]],
             Tail(order))

\* one iteration of the loop over example_dirs; glob yields the files of
\* in_dir in an order of the file system's choosing
JupyterStageDir ==
    /\ pc = "jupyter_stage"
    /\ stage <= Len(example_dirs)
    /\ LET example_dir == example_dirs[stage]
           found == { x \in DOMAIN examples : x[1] = example_dir }
           cleaned ==
               IF jdb.clean_notebooks
               THEN Restrict(tutorial,
                             { x \in DOMAIN tutorial : x[1] # example_dir })
               ELSE tutorial
       IN  \E order \in { o \in SeqsUpTo(found, Cardinality(found)) :
                            Range(o) = found /\ IsInjective(o) } :
               /\ tutorial' = CopyNotebooks(cleaned, order)
               /\ nb_paths' = nb_paths \o order
    /\ helper' = "copied"
    /\ stage' = stage + 1
    /\ IF stage = Len(example_dirs)
       THEN pc' = "jupyter_execute" /\ nb_idx' = 1
       ELSE UNCHANGED <<pc, nb_idx>>
    /\ UNCHANGED <<stack, err, rstVars, docVars, envVars, siteVars, jdb, examples,
                   test_data, executed>>

\* one iteration of the loop over nb_paths: the notebook is read, run if
\* execute says so, and written back
JupyterProcessNotebook ==
    /\ pc = "jupyter_execute"
    /\ nb_idx <= Len(nb_paths)
    /\ LET nb_path == nb_paths[nb_idx]
           nb == NbRead(tutorial[nb_path])
       IN  IF ShouldExecute(jdb.execute_notebooks, nb)
           THEN \E r \in Outcomes(nb) :
                   /\ executed' = Append(executed,
                                         [path |-> nb_path,
                                          outcome |-> r.outcome])
                   /\ IF r.outcome = "CellExecutionError" /\ ReRaise(environ)
                      THEN /\ err' = "CellExecutionError"
                           /\ pc' = "failed"
                           /\ UNCHANGED <<tutorial, nb_idx>>
                      ELSE /\ tutorial' =
                                 [tutorial EXCEPT ![nb_path] = NbWrite(r.nb)]
                           /\ nb_idx' = nb_idx + 1
                           /\ UNCHANGED <<pc, err>>
           ELSE /\ nb_idx' = nb_idx + 1
                /\ UNCHANGED <<pc, err, tutorial, executed>>
    /\ UNCHANGED <<stack, rstVars, docVars, envVars, siteVars, jdb, examples,
                   test_data, helper, stage, nb_paths>>

\* run returns to its caller
JupyterRunReturn ==
    /\ pc = "jupyter_execute"
    /\ nb_idx > Len(nb_paths)
    /\ pc' = Head(stack)
    /\ stack' = Tail(stack)
    /\ UNCHANGED <<err, rstVars, docVars, nbVars, envVars,
                   siteVars>>

PartialFunctions(slots, values, n) ==
    UNION { [S -> values] : S \in { T \in SUBSET slots : Cardinality(T) <= n } }

RstIdle ==
    /\ module_names = <<>>
    /\ python_api = NoDir
    /\ idx = 0
    /\ snapshots = <<>>

InitNb ==
    /\ pc = "jupyter_init"
    /\ stack = <<"jupyter_returned">>
    /\ err = ""
    /\ RstIdle
    /\ DocIdle
    /\ args \in [clean_notebooks : BOOLEAN,
                 execute_notebooks : {"auto", "always", "bogus"},
                 build_sphinx : {TRUE}, build_doxygen : {FALSE},
                 is_release : {FALSE}]
    /\ environ \in {{}, {"TRAVIS"}}
    /\ jdb = NoBuilder
    /\ examples \in PartialFunctions(
                        ExampleSlots,
                        { [text |-> "authored", nb |-> n] :
                            n \in NotebookSamples },
                        MaxNotebooks)
    /\ tutorial \in PartialFunctions(TutorialSlots, PreexistingSamples,
                                     MaxPreexisting)
    /\ test_data = "stale"
    /\ helper = "absent"
    /\ stage = 0
    /\ nb_paths = <<>>
    /\ nb_idx = 0
    /\ executed = <<>>
    /\ SiteIdle

NextNb ==
    \/ JupyterInit
    \/ JupyterRunBegin
    \/ JupyterStageDir
    \/ JupyterProcessNotebook
    \/ JupyterRunReturn

SpecNb == InitNb /\ [][NextNb]_vars

---------------------------------------------------------------------------
(* SphinxDocsBuilder, DoxygenDocsBuilder and the main block *)

S_python_api ==
    <<"p", "y", "t", "h", "o", "n", "_", "a", "p", "i", "/">>

S_version_eq ==
    <<"v", "e", "r", "s", "i", "o", "n", "=">>

S_release_eq ==
    <<"r", "e", "l", "e", "a", "s", "e", "=">>

S_html ==
    <<"h", "t", "m", "l">>

\* os.path.join(html_output_dir, "html"), from the script's directory
S_out_html ==
    <<"_", "o", "u", "t", "/", "h", "t", "m", "l">>

\* lines a version.txt may hold
L_version_1_2_3 ==
    <<"v", "e", "r", "s", "i", "o", "n", " ", "1", " ", "2", " ", "3", " ",
    "e", "x", "t", "r", "a", "\n">>

L_major ==
    <<"M", "A", "J", "O", "R", " ", "0", "\n">>

L_minor ==
    <<"M", "I", "N", "O", "R", " ", "9", "\n">>

L_patch ==
    <<"P", "A", "T", "C", "H", " ", "1", "\n">>

L_bare ==
    <<"b", "a", "r", "e", "\n">>

\* lines an index.rst may hold
I_title ==
    <<"O", "p", "e", "n", "3", "D", "\n">>

I_tutorial ==
    <<" ", " ", " ", " ", "t", "u", "t", "o", "r", "i", "a", "l", "/", "i",
    "n", "d", "e", "x", "\n">>

I_cam ==
    <<" ", " ", " ", " ", "p", "y", "t", "h", "o", "n", "_", "a", "p", "i",
    "/", "o", "p", "e", "n", "3", "d", ".", "c", "a", "m", "\n">>

I_ml ==
    <<" ", " ", " ", " ", "p", "y", "t", "h", "o", "n", "_", "a", "p", "i",
    "/", "o", "p", "e", "n", "3", "d", ".", "m", "l", "\n">>

I_ml_trailing ==
    <<" ", " ", " ", " ", "p", "y", "t", "h", "o", "n", "_", "a", "p", "i",
    "/", "o", "p", "e", "n", "3", "d", ".", "m", "l", " ", "\n">>

I_x ==
    <<"p", "y", "t", "h", "o", "n", "_", "a", "p", "i", "/", "o", "p", "e",
    "n", "3", "d", ".", "x", "\n">>

VersionLines == { L_version_1_2_3, L_major, L_minor, L_patch, L_bare }

IndexSamples ==
    { <<I_title, I_tutorial>>,
      <<I_title, I_cam>>,
      <<I_cam, I_tutorial, I_ml>>,
      <<I_x, I_cam>>,
      <<I_ml_trailing>> }

\* s.rstrip("\n")
RECURSIVE RStripNewline(_)
RStripNewline(s) ==
    IF s # <<>> /\ s[Len(s)] = "\n"
    THEN RStripNewline(SubSeq(s, 1, Len(s) - 1))
    ELSE s

IsSpace(c) == c \in {" ", "\n"}

\* the leading \s* of the pattern
RECURSIVE LStripSpace(_)
LStripSpace(s) ==
    IF s # <<>> /\ IsSpace(s[1]) THEN LStripSpace(Tail(s)) ELSE s

\* re.match("^\s*python_api/(.*)\s*$", line): whether it matches
IndexLineMatches(line) ==
    LET rest == LStripSpace(line)
    IN  /\ Len(rest) >= Len(S_python_api)
        /\ SubSeq(rest, 1, Len(S_python_api)) = S_python_api

\* m.group(1): the greedy (.*) takes the rest of the line up to its newline
IndexLineGroup(line) ==
    LET rest == LStripSpace(line)
        tail == SubSeq(rest, Len(S_python_api) + 1, Len(rest))
    IN  Split(tail, "\n")[1]

\* SphinxDocsBuilder._get_module_names_from_index_rst
RECURSIVE GetModuleNamesFromIndexRst(_)
GetModuleNamesFromIndexRst(lines) ==
    IF lines = <<>> THEN <<>>
    ELSE (IF IndexLineMatches(Head(lines))
          THEN <<IndexLineGroup(Head(lines))>> ELSE <<>>)
         \o GetModuleNamesFromIndexRst(Tail(lines))

\* whether line.rstrip("\n").split(" ")[1] exists for every line
VersionListDefined(lines) ==
    \A i \in 1..Len(lines) : Len(Split(RStripNewline(lines[i]), " ")) >= 2

\* version_list
VersionList(lines) ==
    [i \in 1..Len(lines) |-> Split(RStripNewline(lines[i]), " ")[2]]

FirstThree(seq) == SubSeq(seq, 1, IF Len(seq) < 3 THEN Len(seq) ELSE 3)

\* a version read from the second line alone: the first three tokens after
\* its leading word
ReleaseVersionOfSecondLine(lines) ==
    IF Len(lines) < 2 THEN <<>>
    ELSE Join(FirstThree(Tail(Split(RStripNewline(lines[2]), " "))), <<".">>)

\* release_version
ReleaseVersion(lines) == Join(FirstThree(VersionList(lines)), <<".">>)

\* cmd
SphinxCmd(is_release, lines) ==
    IF is_release
    THEN [program |-> "sphinx-build",
          args |-> << <<"-", "b">>, S_html, <<"-", "D">>,
                      S_version_eq \o ReleaseVersion(lines), <<"-", "D">>,
                      S_release_eq \o ReleaseVersion(lines), <<".">>,
                      S_out_html >>]
    ELSE [program |-> "sphinx-build",
          args |-> << <<"-", "b">>, S_html, <<".">>, S_out_html >>]

\* a call that does not look at the exit code
CallIgnoringExit(returncode) == FALSE

\* subprocess.check_call: raises CalledProcessError on a non-zero exit
CheckCallRaises(returncode) == returncode # 0

\* the main block up to "if args.build_sphinx"
MainBegin ==
    /\ pc = "main"
    /\ html_out' = {}
    /\ cpp_build_dir' = "absent"
    /\ IF args.build_sphinx
       THEN pc' = "jupyter_init" /\ stack' = <<"sphinx_init", "main_doxygen">>
       ELSE pc' = "main_doxygen" /\ stack' = <<>>
    /\ UNCHANGED <<err, rstVars, docVars, nbVars, envVars, index_rst,
                   version_txt, sdb, calls, doxygen_dir>>

\* SphinxDocsBuilder.__init__
SphinxInit ==
    /\ pc = "sphinx_init"
    /\ sdb' = [built |-> TRUE,
               documented_modules |-> GetModuleNamesFromIndexRst(index_rst),
               is_release |-> args.is_release]
    /\ pc' = "sphinx_run"
    /\ UNCHANGED <<stack, err, rstVars, docVars, nbVars, envVars, index_rst,
                   version_txt, calls, html_out, doxygen_dir, cpp_build_dir>>

\* SphinxDocsBuilder.run up to the call of generate_rst
\* (_gen_python_api_docs makes the PyAPIDocsBuilder)
SphinxGenPythonApiDocs ==
    /\ pc = "sphinx_run"
    /\ module_names' = sdb.documented_modules
    /\ snapshots' = <<python_api>>
    /\ pc' = "generate_rst"
    /\ stack' = <<"run_sphinx">> \o stack
    /\ UNCHANGED <<err, python_api, idx, docVars, nbVars, envVars, siteVars>>

\* SphinxDocsBuilder._run_sphinx, and run's return
RunSphinx ==
    /\ pc = "run_sphinx"
    /\ IF sdb.is_release /\ ~VersionListDefined(version_txt)
       THEN /\ err' = "IndexError"
            /\ pc' = "failed"
            /\ UNCHANGED <<stack, calls, html_out>>
       ELSE \E returncode \in {0, 1} :
               /\ calls' = Append(calls,
                                  [cmd |-> SphinxCmd(sdb.is_release,
                                                     version_txt),
                                   returncode |-> returncode])
               /\ IF CheckCallRaises(returncode)
                  THEN /\ err' = "CalledProcessError"
                       /\ pc' = "failed"
                       /\ UNCHANGED <<stack, html_out>>
                  ELSE /\ html_out' = html_out \cup {"html"}
                       /\ pc' = Head(stack)
                       /\ stack' = Tail(stack)
                       /\ UNCHANGED err
    /\ UNCHANGED <<rstVars, docVars, nbVars, envVars, index_rst, version_txt,
                   sdb, doxygen_dir, cpp_build_dir>>

\* "if args.build_doxygen": DoxygenDocsBuilder(html_output_dir).run()
DoxygenRun ==
    /\ pc = "main_doxygen"
    /\ args.build_doxygen
    /\ \E returncode \in {0, 1} :
          /\ calls' = Append(calls,
                             [cmd |-> [program |-> "doxygen",
                                       args |-> <<"Doxyfile">>],
                              returncode |-> returncode])
          /\ IF CheckCallRaises(returncode)
             THEN /\ err' = "CalledProcessError"
                  /\ pc' = "failed"
                  /\ doxygen_dir' = "created"
                  /\ UNCHANGED html_out
             ELSE /\ html_out' = html_out \cup {"html/cpp_api"}
                  /\ doxygen_dir' = "absent"
                  /\ pc' = "done"
                  /\ UNCHANGED err
    /\ UNCHANGED <<stack, rstVars, docVars, nbVars, envVars, index_rst,
                   version_txt, sdb, cpp_build_dir>>

\* the else branch: "Doxygen build disabled"
MainNoDoxygen ==
    /\ pc = "main_doxygen"
    /\ ~args.build_doxygen
    /\ pc' = "done"
    /\ UNCHANGED <<stack, err, rstVars, docVars, nbVars, envVars, siteVars>>

\* a run of SphinxDocsBuilder alone
InitSphinx ==
    /\ pc = "sphinx_init"
    /\ stack = <<"sphinx_returned">>
    /\ err = ""
    /\ RstIdle
    /\ DocIdle
    /\ NbIdle
    /\ args \in [clean_notebooks : {FALSE}, execute_notebooks : {"auto"},
                 build_sphinx : {TRUE}, build_doxygen : {FALSE},
                 is_release : BOOLEAN]
    /\ environ = {}
    /\ index_rst \in IndexSamples
    /\ version_txt \in SeqsUpTo(VersionLines, MaxLines)
    /\ sdb = NoSphinx
    /\ calls = <<>>
    /\ html_out = {}
    /\ doxygen_dir = "absent"
    /\ cpp_build_dir = "absent"

NextSphinx ==
    \/ SphinxInit
    \/ SphinxGenPythonApiDocs
    \/ GenerateRstBegin
    \/ GenerateRstModule
    \/ GenerateRstReturn
    \/ RunSphinx

SpecSphinx == InitSphinx /\ [][NextSphinx]_vars

\* the script from its command line
Init ==
    /\ pc = "main"
    /\ stack = <<>>
    /\ err = ""
    /\ RstIdle
    /\ DocIdle
    /\ args \in [clean_notebooks : BOOLEAN,
                 execute_notebooks : {"auto", "always", "bogus"},
                 build_sphinx : BOOLEAN, build_doxygen : BOOLEAN,
                 is_release : BOOLEAN]
    /\ environ \in {{}, {"TRAVIS"}}
    /\ jdb = NoBuilder
    /\ examples \in PartialFunctions(
                        {<<"Basic", "a.ipynb">>},
                        { [text |-> "authored", nb |-> n] :
                            n \in NotebookSamples },
                        1)
    /\ tutorial = <<>>
    /\ test_data = "stale"
    /\ helper = "absent"
    /\ stage = 0
    /\ nb_paths = <<>>
    /\ nb_idx = 0
    /\ executed = <<>>
    /\ index_rst \in IndexSamples
    /\ version_txt \in { <<L_major, L_minor, L_patch>>, <<L_major, L_bare>> }
    /\ sdb = NoSphinx
    /\ calls = <<>>
    /\ html_out \in { {}, {"html", "html/cpp_api"} }
    /\ doxygen_dir = "created"
    /\ cpp_build_dir = "created"

Next ==
    \/ MainBegin
    \/ JupyterInit
    \/ JupyterRunBegin
    \/ JupyterStageDir
    \/ JupyterProcessNotebook
    \/ JupyterRunReturn
    \/ SphinxInit
    \/ SphinxGenPythonApiDocs
    \/ GenerateRstBegin
    \/ GenerateRstModule
    \/ GenerateRstReturn
    \/ RunSphinx
    \/ DoxygenRun
    \/ MainNoDoxygen

Spec == Init /\ [][Next]_vars

---------------------------------------------------------------------------
(* Claims about PyAPIDocsBuilder, under SpecRst *)

StartsWith(s, prefix) ==
    Len(s) >= Len(prefix) /\ SubSeq(s, 1, Len(prefix)) = prefix

HasLine(text, line) == \E i \in 1..Len(text) : text[i] = line

IsClassFile(text, module_name, class_name) ==
    /\ text[1] = Dotted(module_name, class_name)
    /\ HasLine(text, S_autoclass \o class_name)

IsFunctionFile(text, module_name, function_name) ==
    /\ text[1] = Dotted(module_name, function_name)
    /\ HasLine(text, S_autofunction \o function_name)

IsModuleFile(text, module_name) ==
    /\ text[1] = module_name
    /\ \A i \in 1..Len(text) :
           ~StartsWith(text[i], S_autoclass)
           /\ ~StartsWith(text[i], S_autofunction)

Listed == { module_names[k] : k \in 1..Len(module_names) }

AttrNames(module_name, kind) ==
    { a[1] : a \in { b \in ModuleAttrs[GetOpen3dModule(module_name)] :
                        b[2] = kind } }

\* the modules, classes and native callables the run has to document
Documented ==
    { <<"module", m, <<>>>> : m \in Listed }
    \cup UNION { { <<"class", m, c>> : c \in AttrNames(m, "class") } :
                   m \in Listed }
    \cup UNION { { <<"function", m, f>> : f \in AttrNames(m, "builtin") } :
                   m \in Listed }

FileOf(e) == IF e[1] = "module" THEN RstName(e[2])
             ELSE RstName(Dotted(e[2], e[3]))

GenerateRstCompleted == pc = "rst_returned" /\ err = ""

\* C1: after generate_rst completes, the output directory holds exactly one
\* module file per listed module, one class file per class attribute and one
\* function file per built-in callable attribute: every member has its file,
\* no two of them share a file, and there is no other file.
C1_OneFilePerModuleAndMember ==
    GenerateRstCompleted =>
        LET files == python_api.files IN
        /\ DOMAIN files = { FileOf(e) : e \in Documented }
        /\ Cardinality(DOMAIN files) = Cardinality(Documented)
        /\ \A e \in Documented :
              /\ FileOf(e) \in DOMAIN files
              /\ CASE e[1] = "module" -> IsModuleFile(files[FileOf(e)], e[2])
                   [] e[1] = "class" ->
                          IsClassFile(files[FileOf(e)], e[2], e[3])
                   [] OTHER -> IsFunctionFile(files[FileOf(e)], e[2], e[3])

\* C3: a second generate_rst with the same module list leaves the output
\* directory as the first one did (the same files with the same contents),
\* and nothing that was in the directory before a run is left after it.
C3_RerunIsIdempotent ==
    /\ Len(snapshots) >= 3 => snapshots[3] = snapshots[2]
    /\ \A k \in 2..Len(snapshots) :
          /\ snapshots[k].exists
          /\ \A n \in DOMAIN snapshots[k].files :
                snapshots[k].files[n] # StaleText

C3_RerunOverStaleFiles ==
    /\ Len(snapshots) = 3
    /\ DOMAIN snapshots[1].files # {}
    /\ Len(module_names) = MaxModules
    /\ snapshots[3].files # <<>>

\* a module name is resolved as the claim has it: imported directly, or a
\* path of at least two segments that starts at the root package and whose
\* further segments are attributes, one after the other
ProperlyResolvable(name) ==
    \/ \E m \in Importable : m[1] = name
    \/ LET segments == Split(name, ".") IN
       /\ Len(segments) >= 2
       /\ segments[1] = S_open3d
       /\ Traverse("root", Tail(segments)) # "AttributeError"

\* C9: generate_rst never gets past a module name that can neither be
\* imported nor reached from the root package by its dotted path: it fails
\* there with a lookup error, documenting nothing under that name.
C9_UnresolvableNameIsFatal ==
    \A k \in 1..Len(module_names) :
        ~ProperlyResolvable(module_names[k]) =>
            /\ idx <= k
            /\ RstName(module_names[k]) \notin DOMAIN python_api.files
               \/ pc = "generate_rst"

---------------------------------------------------------------------------
(* Claims about _generate_sub_module_doc, under SpecDoc *)

LineIndex(text, line) == CHOOSE i \in 1..Len(text) : text[i] = line

\* the lines of text from position from up to the next empty line
RECURSIVE Block(_, _)
Block(text, from) ==
    IF from > Len(text) \/ text[from] = <<>> THEN <<>>
    ELSE <<text[from]>> \o Block(text, from + 1)

\* the entries of the group under a header, skip lines below the header
GroupEntries(text, header, skip) ==
    IF HasLine(text, header)
    THEN Block(text, LineIndex(text, header) + skip)
    ELSE <<>>

\* out lists the members of in, each once, in ascending order
IsSortedListOf(out, in) ==
    /\ Len(out) = Len(in)
    /\ Range(out) = Range(in)
    /\ \A i, j \in 1..Len(out) : i < j => StrLess(out[i], out[j])

ModuleFileWritten ==
    /\ pc = "doc_written"
    /\ RstName(doc_args.sub_module_full_name) \in DOMAIN python_api.files

\* C2: whatever the order of the names passed in, the module file lists the
\* class names in sorted order under Classes, the function names in sorted
\* order under Functions, and in the hidden toctree the sorted class names
\* followed by the sorted function names, each name once per group.
C2_ModuleFileListsAreSorted ==
    pc = "doc_written" =>
        /\ ModuleFileWritten
        /\ LET text == python_api.files[RstName(doc_args.sub_module_full_name)]
               classes == GroupEntries(text, S_Classes, 4)
               functions == GroupEntries(text, S_Functions, 4)
               toctree == GroupEntries(text, S_toctree, 3)
               Name(line) == SubSeq(line, Len(S_indent) + 1, Len(line))
               class_names == [i \in 1..Len(classes) |-> Name(classes[i])]
               function_names ==
                   [i \in 1..Len(functions) |-> Name(functions[i])]
               obj_names == class_names \o function_names
           IN  /\ \A i \in 1..Len(classes) : StartsWith(classes[i], S_indent)
               /\ \A i \in 1..Len(functions) :
                      StartsWith(functions[i], S_indent)
               /\ IsSortedListOf(class_names, doc_args.class_names)
               /\ IsSortedListOf(function_names, doc_args.function_names)
               /\ toctree =
                      [i \in 1..Len(obj_names) |->
                          S_indent \o obj_names[i] \o <<" ", "<">>
                          \o Dotted(doc_args.sub_module_full_name, obj_names[i])
                          \o <<">">>]

IsAscending(seq) ==
    \A i, j \in 1..Len(seq) : i < j => StrLess(seq[i], seq[j])

C2_UnsortedNamesPassed ==
    /\ ModuleFileWritten
    /\ Len(doc_args.class_names) >= 2
    /\ Len(doc_args.function_names) >= 2
    /\ ~IsAscending(doc_args.class_names)
    /\ ~IsAscending(doc_args.function_names)

---------------------------------------------------------------------------
(* Claims about JupyterDocsBuilder, under SpecNb *)

\* C5: constructing JupyterDocsBuilder with an execute option other than
\* "auto" or "always" raises ValueError at once: no builder is made and the
\* constructor clears, copies and executes nothing; with "auto" or "always"
\* it always makes the builder.
C5_InvalidOptionFailsConstruction ==
    /\ [](err = "ValueError" =>
             ~jdb.built /\ pc = "failed" /\ executed = <<>> /\ nb_paths = <<>>)
    /\ [](jdb.built => jdb.execute_notebooks \in {"auto", "always"})
    /\ [][pc = "jupyter_init" =>
             /\ UNCHANGED <<examples, tutorial, test_data, helper, nb_paths,
                            executed, python_api, environ>>
             /\ IF args.execute_notebooks \in {"auto", "always"}
                THEN jdb'.built /\ err' = "" /\ pc' # "failed"
                ELSE ~jdb'.built /\ err' = "ValueError" /\ pc' = "failed"]_vars

C5_BogusOptionRejected ==
    /\ args.execute_notebooks = "bogus"
    /\ err = "ValueError"
    /\ pc = "failed"
    /\ DOMAIN tutorial # {}
    /\ DOMAIN examples # {}

\* C6: a staged notebook is executed exactly when the mode is "always", or
\* the mode is "auto" and the notebook has a code cell with non-empty source
\* and no code cell with outputs or an execution count.
C6_ExecutedIffModeAndCells ==
    [][(pc = "jupyter_execute" /\ nb_idx <= Len(nb_paths)) =>
          LET nb_path == nb_paths[nb_idx]
              cells == tutorial[nb_path].nb.cells
              code == { i \in 1..Len(cells) : cells[i].cell_type = "code" }
              has_code == \E i \in code : cells[i].source # ""
              has_output == \E i \in code : \/ cells[i].outputs # <<>>
                                            \/ cells[i].execution_count # 0
              mode == jdb.execute_notebooks
          IN  /\ (executed' # executed) <=>
                     (mode = "always"
                      \/ (mode = "auto" /\ has_code /\ ~has_output))
              /\ executed' # executed =>
                     /\ Len(executed') = Len(executed) + 1
                     /\ executed'[Len(executed')].path = nb_path]_vars

WasExecuted(nb_path) ==
    \E i \in 1..Len(executed) : executed[i].path = nb_path

\* under "auto", of two staged notebooks the one with code and no outputs
\* was executed and the one with code and recorded outputs was not
C6_AutoSkipsNotebookWithOutputs ==
    /\ pc = "jupyter_returned"
    /\ jdb.execute_notebooks = "auto"
    /\ Len(nb_paths) = 2
    /\ Len(executed) = 1
    /\ executed[1].outcome = "ok"
    /\ \E k \in 1..2 :
          /\ ~WasExecuted(nb_paths[k])
          /\ HasCode(tutorial[nb_paths[k]].nb)
          /\ HasOutput(tutorial[nb_paths[k]].nb)
          /\ tutorial[nb_paths[k]] = examples[nb_paths[k]]

PositionOf(nb_path) == CHOOSE k \in 1..Len(nb_paths) : nb_paths[k] = nb_path

\* C7: a cell execution error propagates out of run, ending it before the
\* later notebooks, exactly when the CI variable TRAVIS is set; otherwise
\* it is swallowed, run goes on with the next notebook and returns.
C7_CellErrorPropagatesOnlyUnderCI ==
    /\ \A i \in 1..Len(executed) :
          executed[i].outcome = "CellExecutionError" =>
              IF "TRAVIS" \in environ
              THEN /\ err = "CellExecutionError"
                   /\ pc = "failed"
                   /\ i = Len(executed)
                   /\ nb_idx = PositionOf(executed[i].path)
              ELSE /\ err = ""
                   /\ pc # "failed"
                   /\ nb_idx > PositionOf(executed[i].path)
    /\ err = "CellExecutionError" =>
          /\ executed # <<>>
          /\ executed[Len(executed)].outcome = "CellExecutionError"

C7_SwallowedErrorThenNextNotebook ==
    /\ pc = "jupyter_returned"
    /\ "TRAVIS" \notin environ
    /\ Len(executed) = 2
    /\ executed[1].outcome = "CellExecutionError"
    /\ err = ""

\* C8: in the execution phase a notebook file changes only when its
\* execution has just completed successfully: one that is not selected, or
\* whose execution failed with a swallowed error, stays as it was.
C8_OnlySuccessfulRunsRewrite ==
    [][pc = "jupyter_execute" =>
          \A nb_path \in DOMAIN tutorial :
              tutorial'[nb_path] # tutorial[nb_path] =>
                  /\ Len(executed') = Len(executed) + 1
                  /\ executed'[Len(executed')] =
                         [path |-> nb_path, outcome |-> "ok"]]_vars

---------------------------------------------------------------------------
(* Claims about SphinxDocsBuilder._run_sphinx, under SpecSphinx *)

ReleaseCalls ==
    { i \in 1..Len(calls) :
        calls[i].cmd.program = "sphinx-build" /\ sdb.is_release }

S_version_1_2_3 ==
    <<"v", "e", "r", "s", "i", "o", "n", "=", "1", ".", "2", ".", "3">>

S_release_1_2_3 ==
    <<"r", "e", "l", "e", "a", "s", "e", "=", "1", ".", "2", ".", "3">>

LineBody(line) ==
    SubSeq(line, 1,
           CHOOSE n \in 0..Len(line) :
               /\ \A j \in (n + 1)..Len(line) : line[j] = "\n"
               /\ n > 0 => line[n] # "\n")

SpacesOf(line) ==
    { i \in 1..Len(LineBody(line)) : LineBody(line)[i] = " " }

HasSecondToken(line) == SpacesOf(line) # {}

\* what stands between the first space of the line and the next one
SecondToken(line) ==
    LET first == CHOOSE i \in SpacesOf(line) :
                     \A j \in SpacesOf(line) : i <= j
        later == { j \in SpacesOf(line) : j > first }
        stop == IF later = {} THEN Len(LineBody(line)) + 1
                ELSE CHOOSE j \in later : \A k \in later : j <= k
    IN  SubSeq(LineBody(line), first + 1, stop - 1)

DotJoined(lines) ==
    CASE Len(lines) = 0 -> <<>>
      [] Len(lines) = 1 -> SecondToken(lines[1])
      [] Len(lines) = 2 ->
             SecondToken(lines[1]) \o <<".">> \o SecondToken(lines[2])
      [] OTHER ->
             SecondToken(lines[1]) \o <<".">> \o SecondToken(lines[2])
             \o <<".">> \o SecondToken(lines[3])

---------------------------------------------------------------------------
(* Claims about the script, under Spec *)

\* C10: when sphinx-build or doxygen exits non-zero the script ends there
\* with a failure and nothing later runs: no doxygen after a failed
\* sphinx-build, no html/cpp_api after a failed doxygen.
C10_ToolFailureEndsScript ==
    \A i \in 1..Len(calls) :
        calls[i].returncode # 0 =>
            /\ i = Len(calls)
            /\ pc = "failed"
            /\ err = "CalledProcessError"
            /\ calls[i].cmd.program = "doxygen" =>
                   "html/cpp_api" \notin html_out

C10_SphinxFailedBeforeDoxygen ==
    /\ args.build_doxygen
    /\ Len(calls) = 1
    /\ calls[1].cmd.program = "sphinx-build"
    /\ calls[1].returncode = 1
    /\ pc = "failed"

---------------------------------------------------------------------------
(* Claims about the staging loop of JupyterDocsBuilder.run, under SpecNb *)

InDir(files, example_dir) == { x \in DOMAIN files : x[1] = example_dir }

\* the paths the step has added to nb_paths
Queued == { nb_paths'[i] : i \in (Len(nb_paths) + 1)..Len(nb_paths') }

\* C11: staging one example directory queues every source notebook; without
\* clean_notebooks every notebook already in the output directory keeps its
\* content, also where a source of the same name exists, and only the
\* missing ones are copied; with clean_notebooks the output directory ends
\* up holding exactly the source notebooks, each equal to its source.  The
\* other output directory and the examples are left alone, so with
\* clean_notebooks the staged tree equals the examples when staging ends.
C11_StagingKeepsExistingOrReplacesAll ==
    /\ [][pc = "jupyter_stage" =>
             LET example_dir == example_dirs[stage]
                 src == InDir(examples, example_dir)
                 old == InDir(tutorial, example_dir)
                 new == InDir(tutorial', example_dir)
             IN  /\ stage' = stage + 1
                 /\ Queued = src
                 /\ Len(nb_paths') = Len(nb_paths) + Cardinality(src)
                 /\ ~jdb.clean_notebooks =>
                        /\ new = old \cup src
                        /\ \A x \in old : tutorial'[x] = tutorial[x]
                        /\ \A x \in src \ old : tutorial'[x] = examples[x]
                 /\ jdb.clean_notebooks =>
                        /\ new = src
                        /\ \A x \in src : tutorial'[x] = examples[x]
                 /\ \A x \in DOMAIN tutorial \cup DOMAIN tutorial' :
                        x[1] # example_dir =>
                            /\ x \in DOMAIN tutorial
                            /\ x \in DOMAIN tutorial'
                            /\ tutorial'[x] = tutorial[x]
                 /\ examples' = examples]_vars
    /\ []((pc = "jupyter_execute" /\ nb_idx = 1 /\ executed = <<>>
           /\ jdb.clean_notebooks) => tutorial = examples)

\* staging is over, nothing has been processed yet, and a notebook with
\* recorded outputs that was in the output directory before still stands
\* where its source would have gone, and is queued
C11_ExistingNotebookKeptAndQueued ==
    /\ pc = "jupyter_execute"
    /\ nb_idx = 1
    /\ executed = <<>>
    /\ ~jdb.clean_notebooks
    /\ <<"Basic", "a.ipynb">> \in DOMAIN examples
    /\ <<"Basic", "a.ipynb">> \in DOMAIN tutorial
    /\ tutorial[<<"Basic", "a.ipynb">>] =
           [text |-> "nbformat", nb |-> [cells |-> <<RunCodeCell>>]]
    /\ examples[<<"Basic", "a.ipynb">>] # tutorial[<<"Basic", "a.ipynb">>]
    /\ \E i \in 1..Len(nb_paths) : nb_paths[i] = <<"Basic", "a.ipynb">>

===========================================================================
